---- MODULE Spec2Model ----
(***************************************************************************)
(* Model of ggpa/mcts_bot.py: the Monte Carlo Tree Search agent            *)
(* (TreeNode, MCTSAgent.choose_card) of the card-battle framework.         *)
(*                                                                         *)
(* The battle state (battle.py) is an external collaborator; it is         *)
(* modelled from the state interface of the specification (section 6) as   *)
(* a small duel: the agent has hp, the enemy has ehp, "Strike" hurts the   *)
(* enemy, "Defend" blocks, "End" ends the turn and lets the enemy hit.     *)
(* Real numbers are kept exactly as integers in units of 1/Scale.          *)
(***************************************************************************)
EXTENDS Integers, Sequences, FiniteSets, TLC

\* ---------------------------------------------------------------- bounds
\* iterations is at most MaxIter; the battle starts with hp in 1..MaxHp and
\* the enemy's in 1..MaxEHp.
MaxIter == 3
MaxHp == 2
MaxEHp == 2

\* ------------------------------------------------------ program constants
max_depth == 20
EpsInv == 1000000

\* The agent's and the enemy's max_health: health() is hp / max_health.
AgentMaxHealth == 4
EnemyMaxHealth == 4

\* One unit of score (1.0), chosen so that every value score() computes
\* (x * 0.5, 0.05 * turn, hp / max_health, the state's own score) is an
\* integer.
Scale == 200 * AgentMaxHealth * EnemyMaxHealth

None == "None"
NoAction == "NoAction"

\* -------------------------------------------- the battle state (adapter)
Cards == {"Strike", "Defend", "End"}

\* The lists get_actions can enumerate in the true state.
ActionLists == {<<"End">>, <<"Strike", "End">>, <<"Strike", "Defend", "End">>}

\* The turn counter when choose_card is called.
TurnValues == {10}

Range(s) == {s[k] : k \in 1..Len(s)}

\* state.get_actions(): every action syntactically available; it may list
\* actions that to_action rejects.
get_actions(s) == s.acts

\* action.to_action(state): the concrete action, or None when the action is
\* not applicable to this state.
to_action(a, s) == IF a \in s.ok THEN <<"do", a>> ELSE <<None, None>>

IsValid(a, s) == to_action(a, s) # <<None, None>>

\* state.ended(): win or loss.
ended(s) == s.hp <= 0 \/ s.ehp <= 0

\* state.step(action) for an applicable action: deterministic.
StateStep(s, a) ==
    CASE a = "Strike" -> [s EXCEPT !.ehp = IF s.ehp > 0 THEN s.ehp - 1 ELSE 0]
      [] a = "Defend" -> s
      [] OTHER        -> [s EXCEPT !.hp = IF s.hp > 0 THEN s.hp - 1 ELSE 0,
                                   !.turn = s.turn + 1]

\* state.score(): the adapter's own evaluation, in units of 1/Scale:
\* the fraction of the enemy's health already removed.
StateScore(s) == 200 * AgentMaxHealth * (EnemyMaxHealth - s.ehp)

\* state.health() * 0.5 in units of 1/Scale.
HalfHealth(s) == 100 * EnemyMaxHealth * s.hp

\* state.copy_undeterministic(): the visible part is copied, the hidden
\* information (which decides what to_action accepts) is resolved afresh.
CopyUndeterministic(s) == {[s EXCEPT !.ok = o] : o \in SUBSET Range(s.acts)}

\* Action categories the rollout heuristic derives from the card's name.
IsAttack(a) == a = "Strike"
IsBlock(a) == a = "Defend"

\* str(action): the key of an action in a node's children.
Str(a) == CASE a = "Strike" -> "PlayCard(Strike)"
            [] a = "Defend" -> "PlayCard(Defend)"
            [] a = "End"    -> "EndAgentTurn"
            [] OTHER        -> a

BattleStates ==
    [hp : 1..MaxHp, ehp : 1..MaxEHp, turn : TurnValues, acts : ActionLists,
     ok : SUBSET Cards]

\* ------------------------------------------------------------ the program
VARIABLES
    battle_state,   \* the true state choose_card receives
    iterations,     \* MCTSAgent.iterations
    nodes,          \* the TreeNode objects, in creation order; nodes[1] is t
    i,              \* completed iterations of the loop in choose_card
    pc,             \* position in choose_card / TreeNode.step
    state,          \* sample_state, alias rollout_state, of this iteration
    node,           \* the local variable node of select / step
    depth,          \* rollout's depth
    result,         \* rollout's return value
    best_action,    \* choose_card's best_action
    ret,            \* what choose_card returns
    warned,         \* the WARNING line was printed
    stop_state,     \* history: the state at which select stopped
    created,        \* history: expand created a child in this iteration
    n_samples,      \* history: calls of copy_undeterministic
    n_backprops,    \* history: calls of backpropagate from step
    bad_step,       \* history: state.step was given an action to_action rejects
    passes          \* history: per node, the completed iterations whose
                    \* backpropagation path held the node

vars == <<battle_state, iterations, nodes, i, pc, state, node, depth, result,
          best_action, ret, warned, stop_state, created, n_samples,
          n_backprops, bad_step, passes>>

\* untried_actions = None
NoUntried == <<None>>

NoState == [hp |-> 0, ehp |-> 0, turn |-> 0, acts |-> <<>>, ok |-> {}]

\* TreeNode.__init__
TreeNode(parent, action_from_parent) ==
    [parent |-> parent, action_from_parent |-> action_from_parent,
     visits |-> 0, total_score |-> 0, untried_actions |-> NoUntried,
     children |-> <<>>]

\* key in self.children
HasKey(children, key) == \E k \in 1..Len(children) : children[k].key = key

\* self.children[key] = (action, child): a dict keeps the position of a key
\* it already holds and appends a new one.
DictSet(children, key, action, child) ==
    IF HasKey(children, key)
    THEN [k \in 1..Len(children) |->
            IF children[k].key = key
            THEN [key |-> key, action |-> action, node |-> child]
            ELSE children[k]]
    ELSE Append(children, [key |-> key, action |-> action, node |-> child])

\* [a for a in state.get_actions() if str(a) not in self.children]
Untried(nd, s) ==
    LET NotChild(a) == ~HasKey(nd.children, Str(a))
    IN  SelectSeq(get_actions(s), NotChild)

\* The lazy fill of untried_actions shared by is_fully_expanded and expand.
FillUntried(nd, s) ==
    IF nd.untried_actions = NoUntried
    THEN [nd EXCEPT !.untried_actions = Untried(nd, s)]
    ELSE nd

\* TreeNode.is_fully_expanded: its value (after the lazy fill).
is_fully_expanded(nd, s) == Len(FillUntried(nd, s).untried_actions) = 0

\* Mutant of ExpandPop: the valid action is read (untried[-1]) but not
\* removed from the list.
RECURSIVE ExpandPopKeeps(_, _)
ExpandPopKeeps(untried, s) ==
    IF Len(untried) = 0
    THEN [untried |-> untried, action |-> NoAction]
    ELSE LET action == untried[Len(untried)]
             rest == SubSeq(untried, 1, Len(untried) - 1)
         IN  IF IsValid(action, s)
             THEN [untried |-> untried, action |-> action]
             ELSE ExpandPopKeeps(rest, s)

\* The while loop of expand: pop from the end until an action is valid.
\* The result is the list left and the action found (NoAction: none).
RECURSIVE ExpandPop(_, _)
ExpandPop(untried, s) ==
    IF Len(untried) = 0
    THEN [untried |-> untried, action |-> NoAction]
    ELSE LET action == untried[Len(untried)]
             rest == SubSeq(untried, 1, Len(untried) - 1)
         IN  IF IsValid(action, s)
             THEN [untried |-> rest, action |-> action]
             ELSE ExpandPop(rest, s)

\* TreeNode.expand on node n with state s: the tree after it and the node
\* it returns.
expand(tree, n, s) ==
    LET nd == FillUntried(tree[n], s)
        p == ExpandPop(nd.untried_actions, s)
        child == Len(tree) + 1
    IN  IF p.action = NoAction
        THEN [tree |-> [tree EXCEPT ![n] = [nd EXCEPT !.untried_actions = p.untried]],
              node |-> n]
        ELSE [tree |-> Append(
                         [tree EXCEPT ![n] =
                            [nd EXCEPT !.untried_actions = p.untried,
                                       !.children = DictSet(nd.children, Str(p.action),
                                                            p.action, child)]],
                         TreeNode(n, p.action)),
              node |-> child]

\* TreeNode.best_uct_child: the children it can return.  The UCB1 value
\* avg + param * sqrt(log(N + 1) / (visits + 1e-6)) is a real number that
\* depends on the free parameter param; every valid child is taken as a
\* possible maximum.  With no valid child the first child is returned.
best_uct_child(tree, n, s) ==
    LET ch == tree[n].children
        valid_children == {k \in 1..Len(ch) : IsValid(ch[k].action, s)}
    IN  IF valid_children = {}
        THEN {ch[1].node}
        ELSE {ch[k].node : k \in valid_children}

\* Mutant of score: the loss test reads health < 0.
ScoreStrictLoss(s) ==
    LET base_score == StateScore(s)
        health_bonus == HalfHealth(s)
        a == (3 * Scale) \div 2 - s.turn * (Scale \div 20)
        turn_bonus == IF a > Scale \div 2 THEN a ELSE Scale \div 2
    IN  IF ended(s) /\ s.hp < 0 THEN 0 - Scale
        ELSE IF ended(s) /\ s.hp > 0 THEN turn_bonus + health_bonus
        ELSE IF s.turn > 10 THEN base_score \div 2 + health_bonus
        ELSE IF 10 * s.hp < 3 * AgentMaxHealth THEN base_score + health_bonus - Scale \div 2
        ELSE base_score + health_bonus

\* TreeNode.score, in units of 1/Scale.
score(s) ==
    LET base_score == StateScore(s)
        health_bonus == HalfHealth(s)
        a == (3 * Scale) \div 2 - s.turn * (Scale \div 20)
        turn_bonus == IF a > Scale \div 2 THEN a ELSE Scale \div 2
    IN  IF ended(s) /\ s.hp <= 0 THEN 0 - Scale
        ELSE IF ended(s) /\ s.hp > 0 THEN turn_bonus + health_bonus
        ELSE IF s.turn > 10 THEN base_score \div 2 + health_bonus
        ELSE IF 10 * s.hp < 3 * AgentMaxHealth THEN base_score + health_bonus - Scale \div 2
        ELSE base_score + health_bonus

\* Mutant of backpropagate: the parent is not called.
BackpropagateNodeOnly(tree, n, r) ==
    [tree EXCEPT ![n].visits = @ + 1, ![n].total_score = @ + r]

\* Mutant of backpropagate: step calls it on self, the root, and not on the
\* node expand returned.
BackpropagateFromSelf(tree, n, r) ==
    [tree EXCEPT ![1].visits = @ + 1, ![1].total_score = @ + r]

\* TreeNode.backpropagate from node n.
RECURSIVE backpropagate(_, _, _)
backpropagate(tree, n, r) ==
    LET t1 == [tree EXCEPT ![n].visits = @ + 1, ![n].total_score = @ + r]
    IN  IF tree[n].parent # 0 THEN backpropagate(t1, tree[n].parent, r) ELSE t1

\* total_score / (visits + 1e-6) of x is greater than that of y:
\*   tx / (vx + e) > ty / (vy + e)
\*   <=>  (tx * vy - ty * vx) * EpsInv + (tx - ty) > 0     (e = 1 / EpsInv),
\* which, for |tx - ty| < EpsInv, the sign of tx * vy - ty * vx decides
\* unless that is 0.
AvgGreater(x, y) ==
    LET D == x.total_score * y.visits - y.total_score * x.visits
        d == x.total_score - y.total_score
    IN  IF d < EpsInv /\ 0 - d < EpsInv
        THEN D > 0 \/ (D = 0 /\ d > 0)
        ELSE D * EpsInv + d > 0

\* Mutant of get_best: the children are not filtered by to_action.
GetBestUnfiltered(tree, s) ==
    LET ch == tree[1].children
        all_children == 1..Len(ch)
        best == CHOOSE k \in all_children :
                    /\ \A j \in all_children : ~AvgGreater(tree[ch[j].node], tree[ch[k].node])
                    /\ \A j \in all_children :
                          j < k => AvgGreater(tree[ch[k].node], tree[ch[j].node])
    IN  IF Len(ch) = 0 THEN Range(get_actions(s))
        ELSE {ch[best].action}

\* Mutant of get_best: without children it returns None.
GetBestNoFallback(tree, s) ==
    LET ch == tree[1].children
        valid_children == {k \in 1..Len(ch) : IsValid(ch[k].action, s)}
        best == CHOOSE k \in valid_children :
                    /\ \A j \in valid_children : ~AvgGreater(tree[ch[j].node], tree[ch[k].node])
                    /\ \A j \in valid_children :
                          j < k => AvgGreater(tree[ch[k].node], tree[ch[j].node])
    IN  IF Len(ch) = 0 THEN {None}
        ELSE IF valid_children = {} THEN Range(get_actions(s))
        ELSE {ch[best].action}

\* TreeNode.get_best: the actions it can return.
get_best(tree, s) ==
    LET ch == tree[1].children
        valid_children == {k \in 1..Len(ch) : IsValid(ch[k].action, s)}
        \* max(...) returns the first of the maximal items
        best == CHOOSE k \in valid_children :
                    /\ \A j \in valid_children : ~AvgGreater(tree[ch[j].node], tree[ch[k].node])
                    /\ \A j \in valid_children :
                          j < k => AvgGreater(tree[ch[k].node], tree[ch[j].node])
    IN  IF Len(ch) = 0 THEN Range(get_actions(s))
        ELSE IF valid_children = {} THEN Range(get_actions(s))
        ELSE {ch[best].action}

\* The nodes on the parent chain from node n up to the root.
RECURSIVE Chain(_, _)
Chain(tree, n) ==
    IF n = 0 THEN {} ELSE {n} \cup Chain(tree, tree[n].parent)

\* The actions the rollout policy can pick in state s (lines 110-137).
RolloutChoices(s) ==
    LET actions == get_actions(s)
        valid_actions == {a \in Range(actions) : IsValid(a, s)}
        \* player_health < 0.4, enemy_health < 0.4
        player_low == 10 * s.hp < 4 * AgentMaxHealth
        enemy_low == 10 * s.ehp < 4 * EnemyMaxHealth
        attack == {a \in valid_actions : IsAttack(a)}
        block == {a \in valid_actions : IsBlock(a)}
    IN  IF player_low /\ block # {} THEN block
        ELSE IF enemy_low /\ attack # {} THEN attack
        ELSE IF attack # {} THEN attack
        ELSE IF block # {} THEN block
        ELSE valid_actions

Init ==
    /\ battle_state \in {s \in BattleStates : s.ok \subseteq Range(s.acts)}
    /\ iterations \in 0..MaxIter
    /\ nodes = <<>>
    /\ i = 0
    /\ pc = "choose_card"
    /\ state = NoState
    /\ node = 0
    /\ depth = 0
    /\ result = 0
    /\ best_action = NoAction
    /\ ret = <<NoAction, NoAction>>
    /\ warned = FALSE
    /\ stop_state = NoState
    /\ created = FALSE
    /\ n_samples = 0
    /\ n_backprops = 0
    /\ bad_step = FALSE
    /\ passes = <<>>

\* choose_card, lines 198-200: a single action is returned at once.
ChooseSingle ==
    /\ pc = "choose_card"
    /\ Len(get_actions(battle_state)) = 1
    /\ ret' = to_action(get_actions(battle_state)[1], battle_state)
    /\ pc' = "done"
    /\ UNCHANGED <<passes, battle_state, iterations, nodes, i, state, node, depth, result,
                   best_action, warned, stop_state, created, n_samples,
                   n_backprops, bad_step>>

\* Mutant of ChooseSearch: the search also runs for a single action.
ChooseSearchAlways ==
    /\ pc = "choose_card"
    /\ nodes' = <<TreeNode(0, NoAction)>>
    /\ pc' = "loop"
    /\ UNCHANGED <<passes, battle_state, iterations, i, state, node, depth, result,
                   best_action, ret, warned, stop_state, created, n_samples,
                   n_backprops, bad_step>>

\* choose_card, line 202: t = TreeNode(self.param)
ChooseSearch ==
    /\ pc = "choose_card"
    /\ Len(get_actions(battle_state)) # 1
    /\ nodes' = <<TreeNode(0, NoAction)>>
    /\ pc' = "loop"
    /\ UNCHANGED <<passes, battle_state, iterations, i, state, node, depth, result,
                   best_action, ret, warned, stop_state, created, n_samples,
                   n_backprops, bad_step>>

\* choose_card, lines 205-207: the next iteration draws its sample and
\* calls t.step, which starts select at the root.
LoopSample ==
    /\ pc = "loop"
    /\ i < iterations
    /\ state' \in CopyUndeterministic(battle_state)
    /\ n_samples' = n_samples + 1
    /\ node' = 1
    /\ pc' = "select"
    /\ UNCHANGED <<passes, battle_state, iterations, nodes, i, depth, result, best_action,
                   ret, warned, stop_state, created, n_backprops, bad_step>>

\* The guard of select's while loop; is_fully_expanded fills untried_actions.
SelectGuard(tree, n, s) ==
    /\ is_fully_expanded(tree[n], s)
    /\ Len(tree[n].children) # 0
    /\ ~ended(s)

\* select, lines 75-76: descend to best_uct_child and apply its action.
\* An action to_action rejects is outside step's contract: the call either
\* raises or applies the action's effect.
SelectDescend ==
    /\ pc = "select"
    /\ SelectGuard(nodes, node, state)
    /\ \E c \in best_uct_child(nodes, node, state) :
         LET a == nodes[c].action_from_parent
         IN  /\ nodes' = [nodes EXCEPT ![node] = FillUntried(@, state)]
             /\ node' = c
             /\ IF IsValid(a, state)
                THEN /\ state' = StateStep(state, a)
                     /\ pc' = "select"
                     /\ UNCHANGED bad_step
                ELSE /\ bad_step' = TRUE
                     /\ \/ /\ state' = StateStep(state, a)
                           /\ pc' = "select"
                        \/ /\ state' = state
                           /\ pc' = "raised"
    /\ UNCHANGED <<passes, battle_state, iterations, i, depth, result, best_action, ret,
                   warned, stop_state, created, n_samples, n_backprops>>

\* select, line 77, and step, lines 33-34: select returns; expand runs
\* unless the state has ended; rollout starts on rollout_state.
SelectStopExpand ==
    /\ pc = "select"
    /\ ~SelectGuard(nodes, node, state)
    /\ LET tree == [nodes EXCEPT ![node] = FillUntried(@, state)]
           e == expand(tree, node, state)
       IN  IF ended(state)
           THEN /\ nodes' = tree
                /\ node' = node
                /\ created' = FALSE
           ELSE /\ nodes' = e.tree
                /\ node' = e.node
                /\ created' = (e.node # node)
    /\ stop_state' = state
    /\ depth' = 0
    /\ pc' = "rollout"
    /\ UNCHANGED <<passes, battle_state, iterations, i, state, result, best_action, ret,
                   warned, n_samples, n_backprops, bad_step>>

\* Mutant of RolloutStep: the rollout runs on the true state's own object
\* instead of a copy, so step changes the true state too.
RolloutStepOnTrueState ==
    /\ pc = "rollout"
    /\ ~ended(state) /\ depth < max_depth
    /\ RolloutChoices(state) # {}
    /\ \E action \in RolloutChoices(state) :
         /\ state' = StateStep(state, action)
         /\ battle_state' = StateStep(battle_state, action)
    /\ depth' = depth + 1
    /\ pc' = IF state'.hp <= 0 THEN "score" ELSE "rollout"
    /\ UNCHANGED <<passes, iterations, nodes, i, node, result, best_action,
                   ret, warned, stop_state, created, n_samples, n_backprops,
                   bad_step>>

\* Mutant of RolloutStep: depth is never incremented.
RolloutStepNoDepth ==
    /\ pc = "rollout"
    /\ ~ended(state) /\ depth < max_depth
    /\ RolloutChoices(state) # {}
    /\ \E action \in RolloutChoices(state) :
         state' = StateStep(state, action)
    /\ pc' = IF state'.hp <= 0 THEN "score" ELSE "rollout"
    /\ UNCHANGED <<passes, battle_state, iterations, nodes, i, node, depth, result,
                   best_action, ret, warned, stop_state, created, n_samples,
                   n_backprops, bad_step>>

\* rollout, lines 109-142: one turn of the while loop.
RolloutStep ==
    /\ pc = "rollout"
    /\ ~ended(state) /\ depth < max_depth
    /\ RolloutChoices(state) # {}
    /\ \E action \in RolloutChoices(state) :
         state' = StateStep(state, action)
    /\ depth' = depth + 1
    /\ pc' = IF state'.hp <= 0 THEN "score" ELSE "rollout"
    /\ UNCHANGED <<passes, battle_state, iterations, nodes, i, node, result, best_action,
                   ret, warned, stop_state, created, n_samples, n_backprops,
                   bad_step>>

\* rollout, lines 109 and 112-113: the loop ends.
RolloutExit ==
    /\ pc = "rollout"
    /\ \/ ended(state)
       \/ depth >= max_depth
       \/ RolloutChoices(state) = {}
    /\ pc' = "score"
    /\ UNCHANGED <<passes, battle_state, iterations, nodes, i, state, node, depth, result,
                   best_action, ret, warned, stop_state, created, n_samples,
                   n_backprops, bad_step>>

\* rollout, line 143: return self.score(state)
Score ==
    /\ pc = "score"
    /\ result' = score(state)
    /\ pc' = "backpropagate"
    /\ UNCHANGED <<passes, battle_state, iterations, nodes, i, state, node, depth,
                   best_action, ret, warned, stop_state, created, n_samples,
                   n_backprops, bad_step>>

\* step, line 36: node.backpropagate(result); the iteration is complete.
Backpropagate ==
    /\ pc = "backpropagate"
    /\ nodes' = backpropagate(nodes, node, result)
    /\ n_backprops' = n_backprops + 1
    /\ i' = i + 1
    /\ pc' = "loop"
    /\ state' = NoState
    /\ stop_state' = NoState
    /\ node' = 0
    /\ depth' = 0
    /\ result' = 0
    /\ created' = FALSE
    /\ passes' = [n \in 1..Len(nodes) |->
                    (IF n <= Len(passes) THEN passes[n] ELSE 0)
                    + (IF n \in Chain(nodes, node) THEN 1 ELSE 0)]
    /\ UNCHANGED <<battle_state, iterations, best_action, ret, warned, n_samples,
                   bad_step>>

\* choose_card, line 209: best_action = t.get_best(battle_state)
GetBest ==
    /\ pc = "loop"
    /\ i >= iterations
    /\ best_action' \in get_best(nodes, battle_state)
    /\ pc' = "return"
    /\ UNCHANGED <<passes, battle_state, iterations, nodes, i, state, node, depth, result,
                   ret, warned, stop_state, created, n_samples, n_backprops,
                   bad_step>>

\* choose_card, lines 213-216.
Return ==
    /\ pc = "return"
    /\ IF best_action = None
       THEN /\ warned' = TRUE
            /\ ret' \in {to_action(a, battle_state) :
                           a \in {b \in Range(get_actions(battle_state)) :
                                    IsValid(b, battle_state)}}
       ELSE /\ ret' = to_action(best_action, battle_state)
            /\ UNCHANGED warned
    /\ pc' = "done"
    /\ UNCHANGED <<passes, battle_state, iterations, nodes, i, state, node, depth, result,
                   best_action, stop_state, created, n_samples, n_backprops,
                   bad_step>>

Next ==
    \/ ChooseSingle
    \/ ChooseSearch
    \/ LoopSample
    \/ SelectDescend
    \/ SelectStopExpand
    \/ RolloutStep
    \/ RolloutExit
    \/ Score
    \/ Backpropagate
    \/ GetBest
    \/ Return

Spec == Init /\ [][Next]_vars

\* ----------------------------------------------------------------- claims
RootChildren == nodes[1].children

ValidRootChildren ==
    {k \in 1..Len(RootChildren) : IsValid(RootChildren[k].action, battle_state)}

SomeActionValid == \E a \in Range(get_actions(battle_state)) : IsValid(a, battle_state)

Searched == Len(get_actions(battle_state)) > 1

\* C1: with more than one legal action (one of them valid) and
\* iterations >= 1, choose_card returns a concrete action that to_action
\* accepts against the true state, never None.
C1_ReturnsValidAction ==
    (pc = "done" /\ Searched /\ iterations >= 1 /\ SomeActionValid)
        => (ret # <<None, None>> /\ ret[2] \in battle_state.ok)

\* C2: when some root child is valid against the true state, get_best
\* returns the action of a valid root child whose average total_score / visits
\* is maximal among the valid root children.
C2_BestValidChild ==
    (pc = "return" /\ ValidRootChildren # {})
        => \E k \in ValidRootChildren :
              /\ best_action = RootChildren[k].action
              /\ IsValid(best_action, battle_state)
              /\ \A j \in ValidRootChildren :
                    LET x == nodes[RootChildren[k].node]
                        y == nodes[RootChildren[j].node]
                    IN  /\ x.visits > 0 /\ y.visits > 0
                        /\ x.total_score * y.visits >= y.total_score * x.visits

\* A valid child is returned although an invalid child has a strictly
\* greater average, and the returned child is not the first valid one.
C2_Witness ==
    /\ pc = "return"
    /\ \E k \in ValidRootChildren :
          /\ best_action = RootChildren[k].action
          /\ \E j \in ValidRootChildren :
                j < k /\ nodes[RootChildren[k].node].total_score * nodes[RootChildren[j].node].visits
                          > nodes[RootChildren[j].node].total_score * nodes[RootChildren[k].node].visits
          /\ \E j \in (1..Len(RootChildren)) \ ValidRootChildren :
                nodes[RootChildren[j].node].total_score * nodes[RootChildren[k].node].visits
                   > nodes[RootChildren[k].node].total_score * nodes[RootChildren[j].node].visits

\* C3: after N completed calls of step on the root, the root's visit
\* count is N.
C3_RootVisits ==
    Len(nodes) >= 1 => (nodes[1].visits = i /\ n_backprops = i)

\* Three iterations are complete: one descended below a child of the root,
\* and one created no node.
C3_Witness ==
    /\ pc = "loop" /\ i = 3
    /\ nodes[1].visits = 3
    /\ Len(nodes) = 3
    /\ \E n \in 1..Len(nodes) : nodes[n].parent > 1

\* C4: with exactly one legal action choose_card returns it and never
\* enters the loop: no sample, no backpropagation, no node but the root.
C4_SingleAction ==
    Len(get_actions(battle_state)) = 1
        => /\ pc \in {"choose_card", "done"}
           /\ n_samples = 0 /\ n_backprops = 0 /\ i = 0
           /\ Len(nodes) <= 1
           /\ pc = "done" => ret = to_action(get_actions(battle_state)[1], battle_state)

C4_Witness ==
    /\ pc = "done" /\ Len(get_actions(battle_state)) = 1 /\ iterations >= 1
    /\ ret = <<"do", "End">>

\* C5: with iterations = 0 and more than one legal action choose_card does
\* not raise, runs no iteration, and its result is to_action of an action
\* drawn from state.get_actions() of the true state.
C5_ZeroIterations ==
    (iterations = 0 /\ Searched)
        => /\ pc \in {"choose_card", "loop", "return", "done"}
           /\ n_samples = 0
           /\ pc \in {"return", "done"} =>
                 /\ Len(RootChildren) = 0
                 /\ best_action \in Range(get_actions(battle_state))
           /\ pc = "done" => ret = to_action(best_action, battle_state)

C5_Witness ==
    /\ pc = "done" /\ iterations = 0 /\ Searched
    /\ best_action = get_actions(battle_state)[2]
    /\ ret = <<"do", best_action>>

\* C6: when the root has no children, or none valid against the true state,
\* the driver prints the warning and returns a random legal action.
C6_WarnsAndFallsBack ==
    (pc = "done" /\ Searched /\ SomeActionValid /\ ValidRootChildren = {})
        => (warned /\ ret # <<None, None>>)

C8_LossValue ==
    [][/\ pc = "score" =>
             /\ state' = state
             /\ (ended(state) /\ state.hp <= 0) => result' = 0 - Scale
       /\ (pc = "backpropagate" /\ ended(state) /\ state.hp <= 0) =>
             /\ result = 0 - Scale
             /\ nodes'[node].total_score = nodes[node].total_score - Scale]_vars

\* A lost state late in the battle, with damage dealt to the enemy.
C8_Witness ==
    /\ pc = "backpropagate"
    /\ state.hp = 0 /\ state.turn > 10 /\ StateScore(state) > 0
    /\ result = 0 - Scale

\* C10: when expand creates a child, the rollout credited to it starts from
\* the state obtained by applying the child's action_from_parent to the
\* state at which selection stopped.
C10_RolloutFromAdvancedState ==
    (pc = "rollout" /\ depth = 0 /\ created)
        => state = StateStep(stop_state, nodes[node].action_from_parent)

\* C11: no action that to_action rejects against the iteration's current
\* state is applied with state.step: the action_from_parent of the child
\* select descends to, and the action rollout picks, are valid against the
\* state they are applied to.
C11_NoInvalidStep ==
    [][/\ (pc = "select" /\ pc' \in {"select", "raised"})
             => IsValid(nodes[node'].action_from_parent, state)
       /\ (pc = "rollout" /\ depth' = depth + 1)
             => \E a \in Range(get_actions(state)) :
                   IsValid(a, state) /\ state' = StateStep(state, a)]_vars

\* C12: for every node and every state passed to it, is_fully_expanded
\* returns true iff every action of state.get_actions() is keyed in the
\* node's children.
C12_FullyExpandedIffAllKeyed ==
    pc = "select"
        => (is_fully_expanded(nodes[node], state)
              <=> \A a \in Range(get_actions(state)) :
                     HasKey(nodes[node].children, Str(a)))

Passes(n) == IF n <= Len(passes) THEN passes[n] ELSE 0

RECURSIVE SumVisits(_, _, _)
SumVisits(tree, children, k) ==
    IF k = 0 THEN 0
    ELSE tree[children[k].node].visits + SumVisits(tree, children, k - 1)

\* The sum of the visit counts of the children of node n.
ChildVisits(n) == SumVisits(nodes, nodes[n].children, Len(nodes[n].children))

FullyExpandedWithChildren(n) ==
    nodes[n].untried_actions = <<>> /\ Len(nodes[n].children) > 0

\* C13 as stated: at the end of every iteration a node's visit count is the
\* number of completed iterations whose path passed through it, and equals
\* the sum of its children's visit counts once it is fully expanded and has
\* children.
C13_VisitsEqualChildSum ==
    pc = "loop"
        => \A n \in 1..Len(nodes) :
              /\ nodes[n].visits = Passes(n)
              /\ FullyExpandedWithChildren(n) => nodes[n].visits = ChildVisits(n)

\* C13 as amended: at the end of every iteration a node's visit count is the
\* number of completed iterations whose path passed through it, and is at
\* least the sum of its children's visit counts; for a node other than the
\* root at least that sum plus one (the iteration that created the node).
C13_VisitsCountPaths ==
    pc = "loop"
        => \A n \in 1..Len(nodes) :
              /\ nodes[n].visits = Passes(n)
              /\ nodes[n].visits >= ChildVisits(n) + (IF n = 1 THEN 0 ELSE 1)

\* A node below the root is fully expanded, has a child, and has one visit
\* more than its children together.
C13_Witness ==
    /\ pc = "loop"
    /\ \E n \in 2..Len(nodes) :
          /\ FullyExpandedWithChildren(n)
          /\ nodes[n].visits = Passes(n)
          /\ nodes[n].visits = ChildVisits(n) + 1

\* expand is about to run on the node select stopped at, the state has not
\* ended, and to_action rejects every untried action of the node.
ExpandAllRejected ==
    /\ pc = "select"
    /\ ~SelectGuard(nodes, node, state)
    /\ ~ended(state)
    /\ \A a \in Range(FillUntried(nodes[node], state).untried_actions) :
          ~IsValid(a, state)

\* C14: when every untried action is rejected, expand returns the node
\* itself and leaves it unchanged: no child is added and the actions still
\* available for later expansion are those of before the call.
C14_ExpandFailLeavesNode ==
    [][ExpandAllRejected
          => /\ pc' = "rollout"
             /\ node' = node
             /\ Len(nodes') = Len(nodes)
             /\ nodes'[node].children = nodes[node].children
             /\ nodes'[node].untried_actions
                   = FillUntried(nodes[node], state).untried_actions]_vars

\* The calls of step do not read what to_action accepts in the true state
\* (only get_best does), and a run with fewer iterations is a prefix of one
\* with more: termination is checked from the true states that accept all
\* their actions, with the largest number of iterations.
FairInit ==
    /\ Init
    /\ battle_state.ok = Range(battle_state.acts)
    /\ iterations = MaxIter

\* The program runs on: a call in progress takes its next step.
FairSpec == FairInit /\ [][Next]_vars /\ WF_vars(Next)

\* The untried actions of the node select stopped at, as expand finds them.
UntriedAtExpand == FillUntried(nodes[node], state).untried_actions

\* C15: every call of step terminates: select descends from a node to one of
\* its children, expand only shortens the cached list of untried actions,
\* rollout applies at most max_depth actions and none once the state has
\* ended or no action is valid, and the call reaches its end.
C15_StepTerminates ==
    /\ [][/\ (pc = "select" /\ pc' = "select")
                => (nodes[node'].parent = node /\ node' > node)
          /\ (pc = "select" /\ pc' = "rollout" /\ ~ended(state))
                => /\ Len(nodes'[node].untried_actions) <= Len(UntriedAtExpand)
                   /\ nodes'[node].untried_actions
                         = SubSeq(UntriedAtExpand, 1, Len(nodes'[node].untried_actions))
                   /\ created' => Len(nodes'[node].untried_actions) < Len(UntriedAtExpand)
          /\ (pc = "rollout" /\ state' # state)
                => /\ depth' = depth + 1 /\ depth' <= max_depth
                   /\ ~ended(state)
                   /\ \E a \in Range(get_actions(state)) : IsValid(a, state)
          /\ pc = "rollout" => (depth <= max_depth /\ depth' <= max_depth)]_vars
    /\ (pc = "select") ~> (pc \in {"loop", "raised"})

\* A rollout has applied max_depth actions and stopped on a state that has
\* not ended.
C15_Witness ==
    pc = "score" /\ depth = max_depth /\ ~ended(state)

\* C16: node statistics change only through backpropagation: the nodes on
\* the parent chain from the node expansion returned (or the node select
\* stopped at, when the state had ended) up to the root get visits + 1 and
\* total_score + result, the same result at each; every other node keeps its
\* visits and total_score, and a new node starts with none.
C16_OnlyBackpropagateChangesStats ==
    [][/\ Len(nodes') >= Len(nodes)
       /\ \A n \in 1..Len(nodes') :
             IF n > Len(nodes)
             THEN nodes'[n].visits = 0 /\ nodes'[n].total_score = 0
             ELSE IF pc = "backpropagate" /\ n \in Chain(nodes, node)
             THEN /\ nodes'[n].visits = nodes[n].visits + 1
                  /\ nodes'[n].total_score = nodes[n].total_score + result
             ELSE /\ nodes'[n].visits = nodes[n].visits
                  /\ nodes'[n].total_score = nodes[n].total_score
       /\ pc \in {"rollout", "score"} => node' = node
       /\ pc = "backpropagate" => 1 \in Chain(nodes, node)]_vars

\* Iterations have backpropagated through a node two levels below the root
\* and left a visited node off its chain with another total.
C16_Witness ==
    /\ pc = "loop"
    /\ \E g, m \in 1..Len(nodes) :
          /\ nodes[g].parent > 1
          /\ m \notin Chain(nodes, g)
          /\ nodes[g].visits >= 1 /\ nodes[m].visits >= 1
          /\ nodes[g].total_score # nodes[m].total_score
          /\ nodes[1].visits = nodes[nodes[g].parent].visits + 1

\* C17: choose_card never changes the true battle state: step is applied to
\* the iteration's copy only, so get_best and the final to_action see the
\* state choose_card received.
C17_TrueStateUnchanged ==
    [][/\ battle_state' = battle_state
       /\ state' # state =>
             \/ pc = "loop" /\ state' \in CopyUndeterministic(battle_state)
             \/ pc \in {"select", "rollout"}
             \/ pc = "backpropagate" /\ state' = NoState]_vars

\* A rollout has stepped the iteration's copy away from the true state.
C17_Witness ==
    /\ pc = "rollout" /\ depth > 0 /\ i >= 1
    /\ state.hp < battle_state.hp
    /\ state.ehp < battle_state.ehp

\* The nodes registered in some node's children map.
RegisteredChildren ==
    UNION {{nodes[n].children[k].node : k \in 1..Len(nodes[n].children)} :
              n \in 1..Len(nodes)}

\* C18: between iterations, and in the selection of the next one and in
\* get_best, every registered child has visits >= 1; inside an iteration
\* the only registered child with no visit is the one expand has just
\* created, which the backpropagation of that iteration starts from.
C18_ChildrenVisited ==
    \A c \in RegisteredChildren :
        IF nodes[c].visits = 0
        THEN /\ pc \in {"rollout", "score", "backpropagate"}
             /\ created /\ c = node
        ELSE nodes[c].visits >= 1

\* best_uct_child is about to compare several children, one of them created
\* by the preceding iteration with its single visit.
C18_Witness ==
    /\ pc = "select" /\ SelectGuard(nodes, node, state)
    /\ Len(nodes[node].children) >= 2
    /\ \E k \in 1..Len(nodes[node].children) :
          nodes[nodes[node].children[k].node].visits = 1

====
